---- MODULE Spec2Model ----
(***************************************************************************)
(* A model of taskscheduler.py: the constant tables, the value resolver    *)
(* (flag_value, parse_value), path normalisation (task_path), the          *)
(* attribute projector (set_task_attributes), TaskScheduler.build,         *)
(* TaskScheduler.register and TaskScheduler.sync, run against a model of   *)
(* the native Schedule.Service (folders and registered tasks).             *)
(*                                                                         *)
(* Python integers are unbounded and the tables hold 0x80000000, so an     *)
(* integer is represented by the set of its one-bits: 5 is {0, 2},         *)
(* 0x80000000 is {31}, and a | b is the union of the two sets.             *)
(***************************************************************************)
EXTENDS Integers, Sequences, FiniteSets, TLC

VARIABLES
    folders,    \* service: the folder paths that exist
    live,       \* service: the paths of the registered tasks
    pc,         \* position of the running call: idle, register, delete, returned, raised
    op,         \* the operation called: none, sync, register
    tasks,      \* sync's argument: the list of desired task paths
    logonType,  \* the logonType argument of the running call
    i,          \* sync: index of the next task of the create/update loop
    pending,    \* sync: the paths still to delete (folder_task_paths - wanted_task_paths)
    calls,      \* the native calls issued by the running call, in order
    outcome,    \* none, ok, or the exception the call raised
    live0,      \* the registered tasks when the running call started
    folders0,   \* the folders when the running call started
    external,   \* number of mutations by another actor during the running call
    test,       \* pure-function checks: which function was applied and to what
    result      \* pure-function checks: what it returned

vars == <<folders, live, pc, op, tasks, logonType, i, pending, calls, outcome,
          live0, folders0, external, test, result>>

svars == <<folders, live, pc, op, tasks, logonType, i, pending, calls, outcome,
           live0, folders0, external>>

pvars == <<test, result>>

----------------------------------------------------------------------------
(* Integers as sets of bit positions *)

\* the one-bits of a natural number below 2^31
Bits(n) == {k \in 0..30 : (n \div (2 ^ k)) % 2 = 1}

\* a | b
BitOr(a, b) == a \cup b

\* the number a set of bit positions below 31 stands for
RECURSIVE Val(_)
Val(b) == IF b = {} THEN 0
          ELSE LET k == CHOOSE x \in b : TRUE IN (2 ^ k) + Val(b \ {k})

\* Python values.  t is the type; a str holds its text in s, or spelled out
\* character by character in chars (the Path of a configuration); an int holds
\* its one-bits in b; a list holds its elements in items; a dict holds its
\* <<key, value>> pairs, in iteration order, in entries; a date holds its ISO
\* text in s; a callable holds the value it returns in items.
PyValue(t, s, b, chars, items, entries) ==
    [t |-> t, s |-> s, b |-> b, chars |-> chars, items |-> items, entries |-> entries]
PyStr(s) == PyValue("str", s, {}, <<>>, <<>>, <<>>)
PyChars(chars) == PyValue("str", "", {}, chars, <<>>, <<>>)
PyInt(b) == PyValue("int", "", b, <<>>, <<>>, <<>>)
PyList(items) == PyValue("list", "", {}, <<>>, items, <<>>)
PyDict(entries) == PyValue("dict", "", {}, <<>>, <<>>, entries)
PyDate(iso) == PyValue("date", iso, {}, <<>>, <<>>, <<>>)
PyCallable(ret) == PyValue("callable", "", {}, <<>>, <<ret>>, <<>>)
PyNone == PyValue("none", "", {}, <<>>, <<>>, <<>>)

Range(f) == {f[x] : x \in DOMAIN f}

----------------------------------------------------------------------------
(* Constant tables *)

TRIGGER_TYPES ==
    [k \in {"EVENT", "TIME", "DAILY", "WEEKLY", "MONTHLY", "MONTHLYDOW", "IDLE",
            "REGISTRATION", "BOOT", "LOGON", "SESSION_STATE_CHANGE"} |->
        CASE k = "EVENT" -> 0 [] k = "TIME" -> 1 [] k = "DAILY" -> 2
          [] k = "WEEKLY" -> 3 [] k = "MONTHLY" -> 4 [] k = "MONTHLYDOW" -> 5
          [] k = "IDLE" -> 6 [] k = "REGISTRATION" -> 7 [] k = "BOOT" -> 8
          [] k = "LOGON" -> 9 [] k = "SESSION_STATE_CHANGE" -> 11]

ACTION_TYPES ==
    [k \in {"EXEC", "COM_HANDLER", "SEND_EMAIL", "SHOW_MESSAGE"} |->
        CASE k = "EXEC" -> 0 [] k = "COM_HANDLER" -> 5 [] k = "SEND_EMAIL" -> 6
          [] k = "SHOW_MESSAGE" -> 7]

LOGON_TYPES ==
    [k \in {"NONE", "PASSWORD", "S4U", "INTERACTIVE_TOKEN", "GROUP", "SERVICE_ACCOUNT",
            "INTERACTIVE_TOKEN_OR_PASSWORD"} |->
        CASE k = "NONE" -> 0 [] k = "PASSWORD" -> 1 [] k = "S4U" -> 2
          [] k = "INTERACTIVE_TOKEN" -> 3 [] k = "GROUP" -> 4
          [] k = "SERVICE_ACCOUNT" -> 5 [] k = "INTERACTIVE_TOKEN_OR_PASSWORD" -> 6]

TASK_RUNLEVEL_TYPE == [k \in {"LUA", "HIGHEST"} |-> IF k = "LUA" THEN 0 ELSE 1]

TASK_CREATION_FLAGS ==
    [k \in {"VALIDATE_ONLY", "CREATE", "UPDATE", "CREATE_OR_UPDATE", "DISABLE",
            "DONT_ADD_PRINCIPAL_ACE", "IGNORE_REGISTRATION_TRIGGERS"} |->
        CASE k = "VALIDATE_ONLY" -> {0} [] k = "CREATE" -> {1} [] k = "UPDATE" -> {2}
          [] k = "CREATE_OR_UPDATE" -> {1, 2} [] k = "DISABLE" -> {3}
          [] k = "DONT_ADD_PRINCIPAL_ACE" -> {4}
          [] k = "IGNORE_REGISTRATION_TRIGGERS" -> {5}]

DAYSOFWEEK ==
    [k \in {"Sunday", "Monday", "Tuesday", "Wednesday", "Thursday", "Friday",
            "Saturday"} |->
        CASE k = "Sunday" -> {0} [] k = "Monday" -> {1} [] k = "Tuesday" -> {2}
          [] k = "Wednesday" -> {3} [] k = "Thursday" -> {4} [] k = "Friday" -> {5}
          [] k = "Saturday" -> {6}]

\* '1': 0x1, '2': 0x2, ..., '31': 0x40000000, 'Last': 0x80000000
DAYSOFMONTH ==
    ("1" :> {0}) @@ ("2" :> {1}) @@ ("3" :> {2}) @@ ("4" :> {3}) @@ ("5" :> {4}) @@
    ("6" :> {5}) @@ ("7" :> {6}) @@ ("8" :> {7}) @@ ("9" :> {8}) @@ ("10" :> {9}) @@
    ("11" :> {10}) @@ ("12" :> {11}) @@ ("13" :> {12}) @@ ("14" :> {13}) @@
    ("15" :> {14}) @@ ("16" :> {15}) @@ ("17" :> {16}) @@ ("18" :> {17}) @@
    ("19" :> {18}) @@ ("20" :> {19}) @@ ("21" :> {20}) @@ ("22" :> {21}) @@
    ("23" :> {22}) @@ ("24" :> {23}) @@ ("25" :> {24}) @@ ("26" :> {25}) @@
    ("27" :> {26}) @@ ("28" :> {27}) @@ ("29" :> {28}) @@ ("30" :> {29}) @@
    ("31" :> {30}) @@ ("Last" :> {31})

MONTHSOFYEAR ==
    [k \in {"January", "February", "March", "April", "May", "June", "July", "August",
            "September", "October", "November", "December"} |->
        CASE k = "January" -> {0} [] k = "February" -> {1} [] k = "March" -> {2}
          [] k = "April" -> {3} [] k = "May" -> {4} [] k = "June" -> {5}
          [] k = "July" -> {6} [] k = "August" -> {7} [] k = "September" -> {8}
          [] k = "October" -> {9} [] k = "November" -> {10} [] k = "December" -> {11}]

MAPPINGS == [k \in {"LogonType", "RunLevel"} |->
                IF k = "LogonType" THEN LOGON_TYPES ELSE TASK_RUNLEVEL_TYPE]

BITFLAG_MAPPINGS ==
    [k \in {"DaysOfWeek", "DaysOfMonth", "MonthsOfYear"} |->
        CASE k = "DaysOfWeek" -> DAYSOFWEEK [] k = "DaysOfMonth" -> DAYSOFMONTH
          [] k = "MonthsOfYear" -> MONTHSOFYEAR]

----------------------------------------------------------------------------
(* flag_value: reduce(lambda a, x: a | mapping.get(x, x), li, 0) *)

\* (mutant) mapping.get(x, 0): an element that is no key of the table is dropped
MappingGet_dropUnknown(mapping, x) ==
    IF x.t = "str" /\ x.s \in DOMAIN mapping THEN PyInt(mapping[x.s]) ELSE PyInt({})

\* mapping.get(x, x): the table's value for a str key of the table, else x itself
\* (an int is never a key: the tables' keys are all str)
MappingGet(mapping, x) ==
    IF x.t = "str" /\ x.s \in DOMAIN mapping THEN PyInt(mapping[x.s]) ELSE x

\* (mutant) the step assigns instead of or-ing: the last flag wins
FlagStep_assign(a, x, mapping) ==
    LET v == MappingGet(mapping, x)
    IN  IF a.err # "none" THEN a
        ELSE IF v.t = "int" THEN [err |-> "none", b |-> v.b]
        ELSE [err |-> "TypeError", b |-> a.b]

\* One step of the reduce, a | mapping.get(x, x); int | str raises TypeError.
\* The accumulator is [err, b]: the exception raised so far and the bits so far.
FlagStep(a, x, mapping) ==
    LET v == MappingGet(mapping, x)
    IN  IF a.err # "none" THEN a
        ELSE IF v.t = "int" THEN [err |-> "none", b |-> BitOr(a.b, v.b)]
        ELSE [err |-> "TypeError", b |-> a.b]

RECURSIVE FlagFold(_, _, _)
FlagFold(a, li, mapping) ==
    IF li = <<>> THEN a ELSE FlagFold(FlagStep(a, Head(li), mapping), Tail(li), mapping)

flag_value(li, mapping) == FlagFold([err |-> "none", b |-> {}], li, mapping)

----------------------------------------------------------------------------
(* parse_value, filter_keys, set_task_attributes *)

\* a result: the exception raised ("none" when there is none) and the value
Ok(v) == [err |-> "none", v |-> v]
Raise(e) == [err |-> e, v |-> PyNone]

\* (mutant) an enum string that is no member of the table is passed through
parse_value_lenient(key, value) ==
    IF key \in DOMAIN BITFLAG_MAPPINGS /\ value.t = "list"
    THEN LET f == flag_value(value.items, BITFLAG_MAPPINGS[key])
         IN  IF f.err # "none" THEN Raise(f.err) ELSE Ok(PyInt(f.b))
    ELSE IF key \in DOMAIN MAPPINGS /\ value.t = "str"
    THEN IF value.s \in DOMAIN MAPPINGS[key]
         THEN Ok(PyInt(Bits(MAPPINGS[key][value.s]))) ELSE Ok(value)
    ELSE IF value.t = "date" THEN Ok(PyStr(value.s))
    ELSE IF value.t = "callable" THEN Ok(value.items[1])
    ELSE Ok(value)

\* parse_value(key, value)
parse_value(key, value) ==
    IF key \in DOMAIN BITFLAG_MAPPINGS /\ value.t = "list"
    THEN LET f == flag_value(value.items, BITFLAG_MAPPINGS[key])
         IN  IF f.err # "none" THEN Raise(f.err) ELSE Ok(PyInt(f.b))
    ELSE IF key \in DOMAIN MAPPINGS /\ value.t = "str"
    THEN IF value.s \in DOMAIN MAPPINGS[key]
         THEN Ok(PyInt(Bits(MAPPINGS[key][value.s]))) ELSE Raise("KeyError")
    ELSE IF value.t = "date" THEN Ok(PyStr(value.s))
    ELSE IF value.t = "callable" THEN Ok(value.items[1])
    ELSE Ok(value)

\* key in d
HasKey(entries, key) == \E k \in DOMAIN entries : entries[k][1] = key

\* d[key], for a key of d
GetKey(entries, key) == entries[CHOOSE k \in DOMAIN entries : entries[k][1] = key][2]

\* filter_keys(d, keys): {k: v for k, v in d.items() if k not in keys}
RECURSIVE filter_keys(_, _)
filter_keys(d, keys) ==
    IF d = <<>> THEN <<>>
    ELSE IF Head(d)[1] \in keys THEN filter_keys(Tail(d), keys)
    ELSE <<Head(d)>> \o filter_keys(Tail(d), keys)

\* The native task object is held as [err, log]: the exception raised so far and
\* the operations done on the object, in order.  An operation is a setattr of a
\* property, named by the path of keys from the task definition, or the Create
\* of an element of a Triggers or Actions collection; the n-th element created
\* in a collection is named by the collection's path and ElementName[n].
NativeOp(name, path, value) == [op |-> name, path |-> path, value |-> value]

ElementName == <<"#1", "#2", "#3", "#4", "#5", "#6", "#7", "#8">>

\* the number of elements created so far in the collection at path
Created(obj, path) ==
    Cardinality({k \in DOMAIN obj.log : obj.log[k].op = "Create" /\ obj.log[k].path = path})

\* (mutant) the Type used as given, without the table
TypeCode_raw(key, typ) == typ

\* TRIGGER_TYPES.get(item['Type'], item['Type']) or the same with ACTION_TYPES
TypeCode(key, typ) ==
    LET table == IF key = "Triggers" THEN TRIGGER_TYPES ELSE ACTION_TYPES
    IN  IF typ.t = "str" /\ typ.s \in DOMAIN table THEN PyInt(Bits(table[typ.s])) ELSE typ

RECURSIVE set_task_attributes(_, _, _)
RECURSIVE SetCollection(_, _, _, _)

\* the loop over the items of a Triggers or Actions list
SetCollection(obj, task, key, items) ==
    IF obj.err # "none" \/ items = <<>> THEN obj
    ELSE LET item == Head(items)
             coll == Append(task, key)
         IN  IF ~HasKey(item.entries, "Type") THEN [obj EXCEPT !.err = "KeyError"]
             ELSE LET typ == GetKey(item.entries, "Type")
                      element == Append(coll, ElementName[Created(obj, coll) + 1])
                      made == [obj EXCEPT !.log =
                                  Append(@, NativeOp("Create", coll, TypeCode(key, typ)))]
                  IN  SetCollection(
                          set_task_attributes(made, element,
                                              filter_keys(item.entries, {"Type"})),
                          task, key, Tail(items))

\* set_task_attributes(task, attributes): task is the path of the object
\* addressed, attributes the <<key, value>> pairs of the dict
set_task_attributes(obj, task, attributes) ==
    IF obj.err # "none" \/ attributes = <<>> THEN obj
    ELSE LET key == Head(attributes)[1]
             value == Head(attributes)[2]
             parsed == parse_value(key, value)
             done ==
                IF value.t = "dict"
                THEN set_task_attributes(obj, Append(task, key), value.entries)
                ELSE IF value.t = "list" /\ key \in {"Triggers", "Actions"}
                THEN SetCollection(obj, task, key, value.items)
                ELSE IF parsed.err # "none" THEN [obj EXCEPT !.err = parsed.err]
                ELSE [obj EXCEPT !.log =
                         Append(@, NativeOp("setattr", Append(task, key), parsed.v))]
         IN  set_task_attributes(done, task, Tail(attributes))

----------------------------------------------------------------------------
(* task_path.  A str is the sequence of its characters; a Path is held as   *)
(* str(path), the text pathlib's WindowsPath normalises its argument to.    *)

BSL == "\\"

\* the longest str given to task_path
MaxPathLen == 5

PathChars == {"/", BSL, "a", "b", "."}

PathInputs == UNION {[1..n -> PathChars] : n \in 0..MaxPathLen}

\* s.replace(old, new), for single characters
StrReplace(s, old, new) == [k \in DOMAIN s |-> IF s[k] = old THEN new ELSE s[k]]

\* s.startswith(c)
StartsWith(s, c) == Len(s) >= 1 /\ s[1] = c

\* s.find(c, from): the first position >= from holding c, 0 when there is none
\* (positions count from 1)
StrFind(s, c, from) ==
    LET hits == {k \in from..Len(s) : s[k] = c}
    IN  IF hits = {} THEN 0 ELSE CHOOSE k \in hits : \A h \in hits : k <= h

\* s.lstrip(c)
RECURSIVE LStrip(_, _)
LStrip(s, c) == IF StartsWith(s, c) THEN LStrip(Tail(s), c) ELSE s

\* s.split(c)
RECURSIVE StrSplit(_, _)
StrSplit(s, c) ==
    LET k == StrFind(s, c, 1)
    IN  IF k = 0 THEN <<s>>
        ELSE <<SubSeq(s, 1, k - 1)>> \o StrSplit(SubSeq(s, k + 1, Len(s)), c)

\* c.join(parts)
RECURSIVE StrJoin(_, _)
StrJoin(parts, c) ==
    IF parts = <<>> THEN <<>>
    ELSE IF Len(parts) = 1 THEN parts[1]
    ELSE parts[1] \o <<c>> \o StrJoin(Tail(parts), c)

\* the components pathlib keeps: not empty and not "."
RECURSIVE KeptParts(_)
KeptParts(parts) ==
    IF parts = <<>> THEN <<>>
    ELSE IF Head(parts) = <<>> \/ Head(parts) = <<".">> THEN KeptParts(Tail(parts))
    ELSE <<Head(parts)>> \o KeptParts(Tail(parts))

\* pathlib's split of a Windows path into [drv, root, rel].  \\machine\share is a
\* UNC drive (two leading separators, the third character not a separator, and no
\* empty machine or share name); otherwise a leading separator is the root and
\* the separators after it are dropped.
SplitRoot(s) ==
    LET n == Len(s)
        i1 == StrFind(s, BSL, 3)
        i2 == IF i1 = 0 THEN 0 ELSE StrFind(s, BSL, i1 + 1)
        unc == /\ n >= 2 /\ s[1] = BSL /\ s[2] = BSL
               /\ ~(n >= 3 /\ s[3] = BSL)
               /\ i1 # 0
               /\ i2 # i1 + 1
        end == IF i2 = 0 THEN n + 1 ELSE i2
    IN  IF unc
        THEN [drv |-> SubSeq(s, 1, end - 1), root |-> <<BSL>>,
              rel |-> SubSeq(s, end + 1, n)]
        ELSE IF StartsWith(s, BSL)
        THEN [drv |-> <<>>, root |-> <<BSL>>, rel |-> LStrip(s, BSL)]
        ELSE [drv |-> <<>>, root |-> <<>>, rel |-> s]

\* str(Path(s)) on Windows
WindowsPath(s) ==
    LET sp == SplitRoot(StrReplace(s, "/", BSL))
        parts == KeptParts(StrSplit(sp.rel, BSL))
    IN  IF sp.drv = <<>> /\ sp.root = <<>> /\ parts = <<>> THEN <<".">>
        ELSE sp.drv \o sp.root \o StrJoin(parts, BSL)

\* (mutant) task_path without the leading backslash added
task_path_noPrefix(path) == WindowsPath(StrReplace(path, "/", BSL))

\* task_path(path)
task_path(path) ==
    LET replaced == StrReplace(path, "/", BSL)
    IN  WindowsPath(IF StartsWith(replaced, BSL) THEN replaced ELSE <<BSL>> \o replaced)

----------------------------------------------------------------------------
(* TaskScheduler.build *)

\* default_author(): DOMAIN\user
DefaultAuthor == PyStr("DOMAIN\\user")

TASK_DEFAULTS ==
    << <<"RegistrationInfo",
         PyDict(<< <<"Author", DefaultAuthor>>,
                   <<"Date", PyCallable(PyStr("2024-01-31T12:00:00"))>> >>)>>,
       <<"Settings", PyDict(<< <<"ExecutionTimeLimit", PyStr("P1D")>> >>)>>,
       <<"Principal",
         PyDict(<< <<"ID", PyStr("Author")>>, <<"UserId", DefaultAuthor>>,
                   <<"LogonType", PyStr("S4U")>>, <<"RunLevel", PyStr("HIGHEST")>> >>)>> >>

\* client.NewTask(0): a new, empty native task object
NewTask == [err |-> "none", log |-> <<NativeOp("NewTask", <<>>, PyNone)>>]

\* what build gives: the exception raised, the Task's path and the native task
\* object (no native object when none was allocated)
Built(err, path, log) == [err |-> err, path |-> path, log |-> log]

\* (mutant) the user's attributes applied first, the defaults second
build_userFirst(task_defaults, task_attributes) ==
    IF ~HasKey(task_attributes, "Path") THEN Built("KeyError", <<>>, <<>>)
    ELSE LET user == set_task_attributes(NewTask, <<>>,
                                         filter_keys(task_attributes, {"Path"}))
             done == set_task_attributes(user, <<>>, task_defaults)
         IN  IF done.err # "none" THEN Built(done.err, <<>>, done.log)
             ELSE Built("none", task_path(GetKey(task_attributes, "Path").chars),
                        done.log)

\* (mutant) the Path looked up only when the Task is made, after the native
\* object was allocated and the attributes projected
build_pathLast(task_defaults, task_attributes) ==
    LET defaults == set_task_attributes(NewTask, <<>>, task_defaults)
        done == set_task_attributes(defaults, <<>>,
                                    filter_keys(task_attributes, {"Path"}))
    IN  IF done.err # "none" THEN Built(done.err, <<>>, done.log)
        ELSE IF ~HasKey(task_attributes, "Path") THEN Built("KeyError", <<>>, done.log)
        ELSE Built("none", task_path(GetKey(task_attributes, "Path").chars), done.log)

\* build(task_attributes), with self.task_defaults = task_defaults
build(task_defaults, task_attributes) ==
    IF ~HasKey(task_attributes, "Path") THEN Built("KeyError", <<>>, <<>>)
    ELSE LET defaults == set_task_attributes(NewTask, <<>>, task_defaults)
             done == set_task_attributes(defaults, <<>>,
                                         filter_keys(task_attributes, {"Path"}))
         IN  IF done.err # "none" THEN Built(done.err, <<>>, done.log)
             ELSE Built("none", task_path(GetKey(task_attributes, "Path").chars),
                        done.log)

----------------------------------------------------------------------------
(* Task paths, as the sequence of their components: \foo\A is <<"foo", "A">> *)

Root == <<>>

\* Path.parent; the root is its own parent
Parent(p) == IF p = Root THEN Root ELSE SubSeq(p, 1, Len(p) - 1)

\* Path.name
Name(p) == IF p = Root THEN "" ELSE p[Len(p)]

\* a folder path and all the folders above it
Ancestors(p) == {SubSeq(p, 1, n) : n \in 0..Len(p)}

\* the longest desired list given to sync
MaxTasks == 2

\* the tasks the service may hold before a call
AllTasks == {<<"foo", "A">>, <<"foo", "B">>, <<"foo", "C">>, <<"foo", "sub", "A">>,
             <<"bar", "A">>, <<"A">>}

\* the paths of the tasks given to register and sync
DesiredPaths == {<<"foo", "B">>, <<"foo", "C">>, <<"bar", "A">>, <<"A">>}

DesiredLists == UNION {[1..n -> DesiredPaths] : n \in 0..MaxTasks}

LogonInputs == {PyStr("S4U"), PyInt(Bits(3))}

CreationFlagInputs == {"CREATE", "UPDATE", "CREATE_OR_UPDATE"}

----------------------------------------------------------------------------
(* The native Schedule.Service.  A world w is [folders, live, calls, err]:  *)
(* the service's folders and tasks, the native calls issued so far, and the *)
(* error of the last native call ("none" when it succeeded).  Every native  *)
(* error is a pywintypes.com_error.                                         *)

World(f, l, c) == [folders |-> f, live |-> l, calls |-> c, err |-> "none"]

Call(name, path, flags, logon, res) ==
    [op |-> name, path |-> path, flags |-> flags, logon |-> logon, res |-> res]

Log(w, name, path, flags, logon, res) ==
    [w EXCEPT !.calls = Append(@, Call(name, path, flags, logon, res)), !.err = res]

\* root.CreateFolder(path): fails when the folder exists, or for another reason
\* (denied); else creates the folder and the missing folders above it
CreateFolder(w, path, denied) ==
    IF denied THEN Log(w, "CreateFolder", path, {}, PyNone, "E_ACCESSDENIED")
    ELSE IF path \in w.folders
         THEN Log(w, "CreateFolder", path, {}, PyNone, "ERROR_ALREADY_EXISTS")
    ELSE [Log(w, "CreateFolder", path, {}, PyNone, "none")
            EXCEPT !.folders = @ \cup Ancestors(path)]

\* client.GetFolder(path): fails when the folder does not exist
GetFolder(w, path) ==
    IF path \in w.folders THEN Log(w, "GetFolder", path, {}, PyNone, "none")
    ELSE Log(w, "GetFolder", path, {}, PyNone, "ERROR_PATH_NOT_FOUND")

\* root.getTask(path): fails when no task is registered at path, or for another
\* reason (failed)
GetTask(w, path, failed) ==
    IF failed THEN Log(w, "GetTask", path, {}, PyNone, "E_ACCESSDENIED")
    ELSE IF path \in w.live THEN Log(w, "GetTask", path, {}, PyNone, "none")
    ELSE Log(w, "GetTask", path, {}, PyNone, "ERROR_FILE_NOT_FOUND")

\* folder.RegisterTaskDefinition(name, definition, flags, userId, password, logonType):
\* CREATE is bit 1 and UPDATE is bit 2 of flags; registering an existing task
\* without UPDATE, or a missing one without CREATE, fails, as may the call for
\* another reason (failed: bad credentials, insufficient privilege)
RegisterTaskDefinition(w, folder, name, flags, logon, failed) ==
    LET path == Append(folder, name)
    IN  IF failed THEN Log(w, "RegisterTaskDefinition", path, flags, logon, "E_FAIL")
        ELSE IF path \in w.live /\ 2 \notin flags
             THEN Log(w, "RegisterTaskDefinition", path, flags, logon,
                      "ERROR_ALREADY_EXISTS")
        ELSE IF path \notin w.live /\ 1 \notin flags
             THEN Log(w, "RegisterTaskDefinition", path, flags, logon,
                      "ERROR_FILE_NOT_FOUND")
        ELSE [Log(w, "RegisterTaskDefinition", path, flags, logon, "none")
                EXCEPT !.live = @ \cup {path}]

\* folder.GetTasks(0): the tasks registered directly in the folder
GetTasks(w, folder) == {p \in w.live : Parent(p) = folder}

\* root.DeleteTask(path, 0): fails when no task is registered at path, or for
\* another reason (failed)
DeleteTask(w, path, failed) ==
    IF failed THEN Log(w, "DeleteTask", path, {}, PyNone, "E_ACCESSDENIED")
    ELSE IF path \notin w.live
         THEN Log(w, "DeleteTask", path, {}, PyNone, "ERROR_FILE_NOT_FOUND")
    ELSE [Log(w, "DeleteTask", path, {}, PyNone, "none") EXCEPT !.live = @ \ {path}]

----------------------------------------------------------------------------
(* TaskScheduler *)

\* with contextlib.suppress(pywintypes.com_error): every com_error is suppressed
Suppress(w) == [w EXCEPT !.err = "none"]

\* _get_and_create_folder(path): CreateFolder under suppress, then GetFolder
get_and_create_folder(w, path, denied) ==
    GetFolder(Suppress(CreateFolder(w, path, denied)), path)

\* (mutant) the logon type passed as given, without the table
ResolveLogon_raw(lt) == lt

\* LOGON_TYPES.get(logonType, logonType)
ResolveLogon(lt) ==
    IF lt.t = "str" /\ lt.s \in DOMAIN LOGON_TYPES THEN PyInt(Bits(LOGON_TYPES[lt.s]))
    ELSE lt

\* register(task, logonType, userId, password, creation_flag): the folder is
\* obtained first, then the arguments are evaluated, then the task is registered
register(w, path, lt, creation_flag, denied, failed) ==
    LET w1 == get_and_create_folder(w, Parent(path), denied)
        fv == flag_value(<<PyStr(creation_flag)>>, TASK_CREATION_FLAGS)
    IN  IF w1.err # "none" THEN w1
        ELSE IF fv.err # "none" THEN [w1 EXCEPT !.err = fv.err]
        ELSE RegisterTaskDefinition(w1, Parent(path), Name(path), fv.b,
                                    ResolveLogon(lt), failed)

\* (mutant) a probe that never finds the task
task_exists_never(w, path, failed) == FALSE

\* task_exists(path): True when getTask succeeds, False on any com_error
task_exists(w, path, failed) == GetTask(w, path, failed).err = "none"

\* (mutant) the probe without its except clause: the error stays raised
AfterProbe_uncaught(w, path, failed) == GetTask(w, path, failed)

\* the world after task_exists: the probe is logged, its error is caught
AfterProbe(w, path, failed) == Suppress(GetTask(w, path, failed))

\* get_tasks(path): root.GetFolder(path).GetTasks(0)
get_tasks(w, folder) == GetFolder(w, folder)

\* (mutant) the validation without the check of the parent folders
SyncValidation_anyFolders(ts) ==
    IF ts = <<>> THEN "IndexError"
    ELSE IF Parent(ts[1]) = Root THEN "AttributeError"
    ELSE "none"

\* (mutant) the validation with the empty list let through
SyncValidation_emptyAllowed(ts) ==
    IF Cardinality({Parent(ts[k]) : k \in DOMAIN ts}) > 1 THEN "AttributeError"
    ELSE IF ts # <<>> /\ Parent(ts[1]) = Root THEN "AttributeError"
    ELSE "none"

\* (mutant) the validation without the check for the root folder
SyncValidation_rootAllowed(ts) ==
    IF Cardinality({Parent(ts[k]) : k \in DOMAIN ts}) > 1 THEN "AttributeError"
    ELSE IF ts = <<>> THEN "IndexError"
    ELSE "none"

\* sync's validation: the exception raised, or "none"
SyncValidation(ts) ==
    IF Cardinality({Parent(ts[k]) : k \in DOMAIN ts}) > 1 THEN "AttributeError"
    ELSE IF ts = <<>> THEN "IndexError"
    ELSE IF Parent(ts[1]) = Root THEN "AttributeError"
    ELSE "none"

\* (mutant) the two creation flags exchanged
SyncCreationFlag_swapped(exists) == IF exists THEN "CREATE" ELSE "UPDATE"

\* creation_flag='UPDATE' if self.task_exists(task.path) else 'CREATE'
SyncCreationFlag(exists) == IF exists THEN "UPDATE" ELSE "CREATE"

\* (mutant) no difference taken: every task listed in the folder is stale
StalePaths_all(folder_task_paths, wanted_task_paths) == folder_task_paths

\* (mutant) the difference taken the wrong way round
StalePaths_reversed(folder_task_paths, wanted_task_paths) ==
    wanted_task_paths \ folder_task_paths

\* folder_task_paths - wanted_task_paths
StalePaths(folder_task_paths, wanted_task_paths) ==
    folder_task_paths \ wanted_task_paths

TheWorld == World(folders, live, calls)

\* the service and the call log become those of world w
Becomes(w) ==
    /\ folders' = w.folders
    /\ live' = w.live
    /\ calls' = w.calls

----------------------------------------------------------------------------
(* Actions *)

\* sync(tasks, logonType): the validation, which issues no native call
SyncCall ==
    \E ts \in DesiredLists, lt \in LogonInputs :
        /\ pc = "idle"
        /\ op' = "sync"
        /\ tasks' = ts
        /\ logonType' = lt
        /\ i' = 1
        /\ IF SyncValidation(ts) = "none"
           THEN pc' = "register" /\ outcome' = "none"
           ELSE pc' = "raised" /\ outcome' = SyncValidation(ts)
        /\ UNCHANGED <<folders, live, pending, calls, live0, folders0, external, test, result>>

\* (mutant) the deletion done inside the create/update loop: each turn registers
\* one task and then deletes a task of the folder that is not wanted
SyncRegister_deleteInLoop ==
    \E probeFailed, denied, failed \in BOOLEAN :
        /\ pc = "register"
        /\ i <= Len(tasks)
        /\ LET exists == task_exists(TheWorld, tasks[i], probeFailed)
               w == register(AfterProbe(TheWorld, tasks[i], probeFailed), tasks[i],
                             logonType, SyncCreationFlag(exists), denied, failed)
               stale == StalePaths(GetTasks(w, Parent(tasks[1])), Range(tasks))
               w2 == IF w.err = "none" /\ stale # {}
                     THEN DeleteTask(w, CHOOSE p \in stale : TRUE, FALSE) ELSE w
           IN  /\ Becomes(w2)
               /\ IF w2.err = "none"
                  THEN pc' = "register" /\ i' = i + 1 /\ outcome' = outcome
                  ELSE pc' = "raised" /\ i' = i /\ outcome' = w2.err
        /\ UNCHANGED <<op, tasks, logonType, pending, live0, folders0, external, test,
                       result>>

\* (mutant) a failed registration undoes the registrations of the earlier turns
SyncRegister_rollback ==
    \E probeFailed, denied, failed \in BOOLEAN :
        /\ pc = "register"
        /\ i <= Len(tasks)
        /\ LET exists == task_exists(TheWorld, tasks[i], probeFailed)
               w == register(AfterProbe(TheWorld, tasks[i], probeFailed), tasks[i],
                             logonType, SyncCreationFlag(exists), denied, failed)
           IN  IF w.err = "none"
               THEN Becomes(w) /\ pc' = "register" /\ i' = i + 1 /\ outcome' = outcome
               ELSE /\ Becomes([w EXCEPT !.live = live0])
                    /\ pc' = "raised" /\ i' = i /\ outcome' = w.err
        /\ UNCHANGED <<op, tasks, logonType, pending, live0, folders0, external, test, result>>

\* one turn of the create/update loop: the probe, then register
SyncRegister ==
    \E probeFailed, denied, failed \in BOOLEAN :
        /\ pc = "register"
        /\ i <= Len(tasks)
        /\ LET exists == task_exists(TheWorld, tasks[i], probeFailed)
               w == register(AfterProbe(TheWorld, tasks[i], probeFailed), tasks[i],
                             logonType, SyncCreationFlag(exists), denied, failed)
           IN  /\ Becomes(w)
               /\ IF w.err = "none"
                  THEN pc' = "register" /\ i' = i + 1 /\ outcome' = outcome
                  ELSE pc' = "raised" /\ i' = i /\ outcome' = w.err
        /\ UNCHANGED <<op, tasks, logonType, pending, live0, folders0, external, test, result>>

\* after the loop: list the folder's tasks and compute the paths to delete
SyncList ==
    /\ pc = "register"
    /\ i > Len(tasks)
    /\ LET folder == Parent(tasks[1])
           w == get_tasks(TheWorld, folder)
       IN  /\ Becomes(w)
           /\ IF w.err = "none"
              THEN /\ pc' = "delete"
                   /\ pending' = StalePaths(GetTasks(w, folder), Range(tasks))
                   /\ outcome' = outcome
              ELSE pc' = "raised" /\ pending' = pending /\ outcome' = w.err
    /\ UNCHANGED <<op, tasks, logonType, i, live0, folders0, external, test, result>>

\* (mutant) a deletion turn that drops the path without deleting the task
SyncDelete_forgets ==
    \E path \in pending :
        /\ pc = "delete"
        /\ pending' = pending \ {path}
        /\ UNCHANGED <<folders, live, calls, pc, outcome, op, tasks, logonType, i, live0,
                       folders0, external, test, result>>

\* one turn of the deletion loop (a set is iterated in no particular order)
SyncDelete ==
    \E path \in pending, failed \in BOOLEAN :
        /\ pc = "delete"
        /\ LET w == DeleteTask(TheWorld, path, failed)
           IN  /\ Becomes(w)
               /\ IF w.err = "none"
                  THEN pc' = "delete" /\ pending' = pending \ {path} /\ outcome' = outcome
                  ELSE pc' = "raised" /\ pending' = pending /\ outcome' = w.err
        /\ UNCHANGED <<op, tasks, logonType, i, live0, folders0, external, test, result>>

\* the most steps another actor takes during one call of sync
MaxExternal == 2

\* sync is between its create/update pass and its return: the listing and the
\* deletion pass are still to come or under way
AfterPass == op = "sync" /\ ((pc = "register" /\ i > Len(tasks)) \/ pc = "delete")

\* another actor registers a task in the folder sync is working on
ExternalCreate ==
    \E p \in AllTasks :
        /\ AfterPass
        /\ external < MaxExternal
        /\ Parent(p) = Parent(tasks[1])
        /\ p \notin live
        /\ live' = live \cup {p}
        /\ external' = external + 1
        /\ UNCHANGED <<folders, pc, op, tasks, logonType, i, pending, calls, outcome,
                       live0, folders0, test, result>>

\* another actor deletes a task of the folder sync is working on
ExternalDelete ==
    \E p \in live :
        /\ AfterPass
        /\ external < MaxExternal
        /\ Parent(p) = Parent(tasks[1])
        /\ live' = live \ {p}
        /\ external' = external + 1
        /\ UNCHANGED <<folders, pc, op, tasks, logonType, i, pending, calls, outcome,
                       live0, folders0, test, result>>

\* the deletion loop is over: sync returns
SyncReturn ==
    /\ pc = "delete"
    /\ pending = {}
    /\ pc' = "returned"
    /\ outcome' = "ok"
    /\ UNCHANGED <<folders, live, op, tasks, logonType, i, pending, calls, live0,
                   folders0, external, test, result>>

\* register(task, logonType, creation_flag=...), called on its own
Register ==
    \E path \in DesiredPaths, lt \in LogonInputs, flag \in CreationFlagInputs,
       denied, failed \in BOOLEAN :
        /\ pc = "idle"
        /\ op' = "register"
        /\ tasks' = <<path>>
        /\ logonType' = lt
        /\ LET w == register(TheWorld, path, lt, flag, denied, failed)
           IN  /\ Becomes(w)
               /\ IF w.err = "none"
                  THEN pc' = "returned" /\ outcome' = "ok"
                  ELSE pc' = "raised" /\ outcome' = w.err
        /\ UNCHANGED <<i, pending, live0, folders0, external, test, result>>

\* sync(tasks, logonType) called a second time with the same arguments, after
\* the first call returned
SyncAgain ==
    /\ op = "sync"
    /\ pc = "returned"
    /\ outcome = "ok"
    /\ op' = "sync again"
    /\ i' = 1
    /\ calls' = <<>>
    /\ live0' = live
    /\ folders0' = folders
    /\ IF SyncValidation(tasks) = "none"
       THEN pc' = "register" /\ outcome' = "none"
       ELSE pc' = "raised" /\ outcome' = SyncValidation(tasks)
    /\ UNCHANGED <<folders, live, tasks, logonType, pending, external, test, result>>

\* task_exists(path), called on its own
TaskExists ==
    \E path \in AllTasks, failed \in BOOLEAN :
        /\ pc = "idle"
        /\ op' = "task_exists"
        /\ tasks' = <<path>>
        /\ LET w == AfterProbe(TheWorld, path, failed)
           IN  /\ Becomes(w)
               /\ IF w.err = "none"
                  THEN /\ pc' = "returned"
                       /\ outcome' = IF task_exists(TheWorld, path, failed)
                                     THEN "True" ELSE "False"
                  ELSE pc' = "raised" /\ outcome' = w.err
        /\ UNCHANGED <<logonType, i, pending, live0, folders0, external, test, result>>

----------------------------------------------------------------------------
(* The resolver, task_path and build applied to inputs drawn from bounded sets *)

\* the longest list given for a bit-flag attribute
MaxFlags == 3

\* the most keys of a configuration given to build
MaxKeys == 3

FlagElements == {PyStr("Monday"), PyStr("Friday"), PyStr("5"), PyStr("Last"),
                 PyStr("January"), PyInt(Bits(5))}

ParseKeys == {"DaysOfWeek", "DaysOfMonth", "MonthsOfYear", "LogonType", "RunLevel",
              "Author"}

ParseValues ==
    {PyList(li) : li \in UNION {[1..n -> FlagElements] : n \in 0..MaxFlags}}
    \cup {PyStr("S4U"), PyStr("HIGHEST"), PyStr("BOGUS"), PyInt(Bits(2)),
          PyDate("2024-01-31"), PyCallable(PyStr("now"))}

\* a second default layer, with a trigger and an action of its own
DefaultsWithCollections ==
    << <<"Settings", PyDict(<< <<"ExecutionTimeLimit", PyStr("PT2H")>>,
                               <<"Priority", PyInt(Bits(7))>> >>)>>,
       <<"Principal", PyDict(<< <<"LogonType", PyStr("S4U")>>,
                                <<"RunLevel", PyStr("HIGHEST")>> >>)>>,
       <<"Triggers", PyList(<< PyDict(<< <<"Type", PyStr("BOOT")>> >>) >>)>>,
       <<"Actions", PyList(<< PyDict(<< <<"Type", PyStr("EXEC")>>,
                                        <<"Path", PyStr("default.exe")>> >>) >>)>> >>

DefaultLayers == {TASK_DEFAULTS, DefaultsWithCollections}

\* the entries a configuration given to build is made of
ConfigEntries ==
    { <<"Path", PyChars(<<"a", "/", "b">>)>>,
      <<"Settings", PyDict(<< <<"ExecutionTimeLimit", PyStr("PT1H")>> >>)>>,
      <<"Settings", PyDict(<< <<"Hidden", PyInt(Bits(1))>> >>)>>,
      <<"Principal", PyDict(<< <<"LogonType", PyStr("PASSWORD")>>,
                               <<"RunLevel", PyStr("LUA")>> >>)>>,
      <<"Principal", PyDict(<< <<"UserId", PyStr("bob")>>,
                               <<"LogonType", PyStr("BOGUS")>>,
                               <<"RunLevel", PyStr("LUA")>> >>)>>,
      <<"Triggers", PyList(<< PyDict(<< <<"Type", PyStr("DAILY")>>,
                                        <<"DaysInterval", PyInt(Bits(2))>> >>) >>)>>,
      <<"Triggers",
        PyList(<< PyDict(<< <<"Type", PyStr("MONTHLY")>>,
                            <<"DaysOfMonth",
                              PyList(<<PyInt(Bits(5)), PyStr("Last")>>)>> >>),
                  PyDict(<< <<"StartBoundary", PyDate("2024-01-31")>>,
                            <<"Type", PyInt(Bits(9))>> >>) >>)>>,
      <<"Actions", PyList(<< PyDict(<< <<"Type", PyStr("EXEC")>>,
                                       <<"Path", PyStr("cmd.exe")>> >>) >>)>> }

\* dicts of at most MaxKeys of these entries, in any order, no key twice
Configs ==
    {c \in UNION {[1..n -> ConfigEntries] : n \in 0..MaxKeys} :
        \A j, k \in DOMAIN c : j # k => c[j][1] # c[k][1]}

\* what is applied: fn names the function, the other fields its arguments
Test(fn, chars, key, value, defaults, attrs) ==
    [fn |-> fn, chars |-> chars, key |-> key, value |-> value,
     defaults |-> defaults, attrs |-> attrs]

TestInputs ==
    {Test("task_path", s, "", PyNone, <<>>, <<>>) : s \in PathInputs}
    \cup {Test("parse_value", <<>>, k, v, <<>>, <<>>) : k \in ParseKeys, v \in ParseValues}
    \cup {Test("build", <<>>, "", PyNone, d, c) : d \in DefaultLayers, c \in Configs}

\* what was returned: done is FALSE until the function has been applied
Result(done, err, v, path, log) ==
    [done |-> done, err |-> err, v |-> v, path |-> path, log |-> log]

NoResult == Result(FALSE, "none", PyNone, <<>>, <<>>)

ApplyTaskPath ==
    /\ test.fn = "task_path"
    /\ ~result.done
    /\ result' = Result(TRUE, "none", PyNone, task_path(test.chars), <<>>)
    /\ UNCHANGED <<test, svars>>

ApplyParseValue ==
    /\ test.fn = "parse_value"
    /\ ~result.done
    /\ LET r == parse_value(test.key, test.value)
       IN  result' = Result(TRUE, r.err, r.v, <<>>, <<>>)
    /\ UNCHANGED <<test, svars>>

ApplyBuild ==
    /\ test.fn = "build"
    /\ ~result.done
    /\ LET r == build(test.defaults, test.attrs)
       IN  result' = Result(TRUE, r.err, PyNone, r.path, r.log)
    /\ UNCHANGED <<test, svars>>

InitBuild ==
    /\ test \in TestInputs
    /\ result = NoResult
    /\ live = {}
    /\ folders = {<<>>}
    /\ pc = "idle"
    /\ op = "none"
    /\ tasks = <<>>
    /\ logonType = PyNone
    /\ i = 1
    /\ pending = {}
    /\ calls = <<>>
    /\ outcome = "none"
    /\ live0 = {}
    /\ folders0 = {<<>>}
    /\ external = 0

NextBuild == ApplyTaskPath \/ ApplyParseValue \/ ApplyBuild

SpecBuild == InitBuild /\ [][NextBuild]_vars

Init ==
    /\ live \in SUBSET AllTasks
    /\ folders = UNION {Ancestors(Parent(p)) : p \in live} \cup {Root}
    /\ pc = "idle"
    /\ op = "none"
    /\ tasks = <<>>
    /\ logonType = PyNone
    /\ i = 1
    /\ pending = {}
    /\ calls = <<>>
    /\ outcome = "none"
    /\ live0 = live
    /\ folders0 = folders
    /\ external = 0
    /\ test = Test("none", <<>>, "", PyNone, <<>>, <<>>)
    /\ result = NoResult

Next ==
    \/ SyncCall \/ SyncRegister \/ SyncList \/ SyncDelete \/ SyncReturn
    \/ Register \/ TaskExists

Spec == Init /\ [][Next]_vars

\* the behaviours where sync is called and, once returned, called again
NextAgain ==
    \/ SyncCall \/ SyncRegister \/ SyncList \/ SyncDelete \/ SyncReturn
    \/ SyncAgain

SpecAgain == Init /\ [][NextAgain]_vars

\* the behaviours where another actor mutates the folder while sync runs
NextRace ==
    \/ SyncCall \/ SyncRegister \/ SyncList \/ SyncDelete \/ SyncReturn
    \/ ExternalCreate \/ ExternalDelete

\* the race is studied on a service whose tasks are all directly in one folder
InitRace == Init /\ \A p \in live : Parent(p) = <<"foo">>

SpecRace == InitRace /\ [][NextRace]_vars

----------------------------------------------------------------------------
(* Properties of sync and register, checked under Spec *)

\* the tasks registered directly in a folder
TasksIn(folder) == {p \in live : Parent(p) = folder}

\* the positions of the log holding a call of the given native operation
CallsOf(name) == {k \in DOMAIN calls : calls[k].op = name}

\* C1: when sync(tasks), given a non-empty list of tasks of one non-root folder,
\* returns without error and no other actor mutated the service meanwhile, the
\* set of task paths directly in that folder is exactly the set of desired paths.
C1_SyncFolderEqualsDesired ==
    (op = "sync" /\ pc = "returned" /\ outcome = "ok" /\ external = 0)
        => TasksIn(Parent(tasks[1])) = Range(tasks)

\* sync has returned after creating \foo\C, updating \foo\B and deleting \foo\A
C1_Witness ==
    /\ op = "sync" /\ pc = "returned" /\ outcome = "ok" /\ external = 0
    /\ live0 = {<<"foo", "A">>, <<"foo", "B">>}
    /\ tasks = <<<<"foo", "B">>, <<"foo", "C">>>>
    /\ live = {<<"foo", "B">>, <<"foo", "C">>}

\* C2: within one sync no DeleteTask call is followed by a RegisterTaskDefinition
\* call: every registration is issued before the first deletion.
C2_RegistersBeforeDeletes ==
    op = "sync" =>
        \A j \in CallsOf("DeleteTask"), k \in CallsOf("RegisterTaskDefinition") : k < j

\* a sync that has registered a task and then deleted another
C2_Witness ==
    /\ op = "sync"
    /\ CallsOf("DeleteTask") # {}
    /\ CallsOf("RegisterTaskDefinition") # {}

\* C3: sync given tasks of more than one parent folder raises the validation
\* error, issues no native call and leaves the service as it was.
C3_SyncRejectsCrossFolder ==
    (op = "sync" /\ Cardinality({Parent(tasks[k]) : k \in DOMAIN tasks}) > 1)
        => /\ pc = "raised"
           /\ outcome = "AttributeError"
           /\ calls = <<>>
           /\ live = live0
           /\ folders = folders0

\* sync was called with tasks under \foo and \bar and has raised
C3_Witness ==
    /\ op = "sync"
    /\ tasks = <<<<"foo", "B">>, <<"bar", "A">>>>
    /\ pc = "raised"

\* C4: sync given tasks whose common parent folder is the root raises the
\* validation error, issues no native call and leaves the service as it was; so
\* sync never registers or deletes a task of the root folder.
C4_SyncRejectsRoot ==
    op = "sync" =>
        /\ (tasks # <<>> /\ \A k \in DOMAIN tasks : Parent(tasks[k]) = Root)
              => /\ pc = "raised"
                 /\ outcome = "AttributeError"
                 /\ calls = <<>>
                 /\ live = live0
                 /\ folders = folders0
        /\ \A k \in CallsOf("RegisterTaskDefinition") \cup CallsOf("DeleteTask") :
              Parent(calls[k].path) # Root

\* sync was called with a task of the root folder, while the root holds a task,
\* and has raised
C4_Witness ==
    /\ op = "sync"
    /\ tasks = <<<<"A">>>>
    /\ <<"A">> \in live
    /\ pc = "raised"

\* C5: in register, a CreateFolder failure other than "already exists" is not
\* suppressed: register raises that native error and goes no further.
C5_FolderErrorPropagates ==
    op = "register" =>
        \A k \in CallsOf("CreateFolder") :
            calls[k].res \notin {"none", "ERROR_ALREADY_EXISTS"}
                => /\ pc = "raised"
                   /\ outcome = calls[k].res
                   /\ Len(calls) = k

----------------------------------------------------------------------------
(* Properties of the resolver, task_path and build, checked under SpecBuild *)

\* a bit-flag attribute was resolved from a list
FlagListResolved ==
    /\ test.fn = "parse_value" /\ result.done
    /\ test.key \in DOMAIN BITFLAG_MAPPINGS
    /\ test.value.t = "list"

\* the bits an element stands for: a name's table value, an int's own bits
ElementBits(mapping, x) == IF x.t = "str" THEN mapping[x.s] ELSE x.b

\* C6 as claimed: DaysOfMonth [5, "Last"] resolves to 0x10 | 0x80000000, the
\* integer 5 contributing the bit of day 5.
C6_Original ==
    (FlagListResolved /\ test.key = "DaysOfMonth"
        /\ test.value.items = <<PyInt(Bits(5)), PyStr("Last")>>)
        => result.err = "none" /\ result.v = PyInt({4, 31})

\* C6 (amended): an int element of a bit-flag list passes through as its own
\* bits, and a name as its table value: DaysOfMonth [5, "Last"] resolves to
\* 0x5 | 0x80000000, while ["5", "Last"] resolves to 0x10 | 0x80000000.
C6_RawPassThrough ==
    FlagListResolved =>
        LET mapping == BITFLAG_MAPPINGS[test.key]
            li == test.value.items
        IN  /\ (\A k \in DOMAIN li : li[k].t = "int" \/ li[k].s \in DOMAIN mapping)
                  => /\ result.err = "none"
                     /\ result.v = PyInt(UNION {ElementBits(mapping, li[k]) :
                                                   k \in DOMAIN li})
            /\ (test.key = "DaysOfMonth" /\ li = <<PyInt(Bits(5)), PyStr("Last")>>)
                  => result.v = PyInt({0, 2, 31})
            /\ (test.key = "DaysOfMonth" /\ li = <<PyStr("5"), PyStr("Last")>>)
                  => result.v = PyInt({4, 31})

\* DaysOfMonth [5, "Last"] has been resolved
C6_Witness ==
    /\ FlagListResolved
    /\ test.key = "DaysOfMonth"
    /\ test.value.items = <<PyInt(Bits(5)), PyStr("Last")>>

\* exactly one leading backslash
OneLeadingBackslash(s) == StartsWith(s, BSL) /\ ~(Len(s) >= 2 /\ s[2] = BSL)

\* the input begins with two slashes, forward or backward
TwoLeadingSlashes(s) == Len(s) >= 2 /\ s[1] \in {"/", BSL} /\ s[2] \in {"/", BSL}

NoForwardSlash(s) == \A k \in DOMAIN s : s[k] # "/"

PathExamples ==
    /\ test.chars = <<"a", "/", "b">> => result.path = <<BSL, "a", BSL, "b">>
    /\ test.chars = <<BSL, "a", BSL, "b">> => result.path = <<BSL, "a", BSL, "b">>
    /\ test.chars \in {<<>>, <<BSL>>, <<"/">>} => result.path = <<BSL>>

BuildReturned == test.fn = "build" /\ result.done /\ result.err = "none"

\* the user's layer: the configuration without its Path
UserLayer == filter_keys(test.attrs, {"Path"})

Collections == {"Triggers", "Actions"}

\* the scalar attributes of a configuration outside its Triggers and Actions
\* lists, each with the path of keys leading to it
RECURSIVE Leaves(_, _)
Leaves(entries, prefix) ==
    UNION {LET key == entries[k][1]
               value == entries[k][2]
           IN  IF value.t = "dict" THEN Leaves(value.entries, Append(prefix, key))
               ELSE IF value.t = "list" /\ key \in Collections THEN {}
               ELSE {[path |-> Append(prefix, key), key |-> key, value |-> value]}
           : k \in DOMAIN entries}

\* the value a property of the native object holds: the last one assigned
Assignments(log, path) ==
    {k \in DOMAIN log : log[k].op = "setattr" /\ log[k].path = path}

Prop(log, path) ==
    log[CHOOSE k \in Assignments(log, path) : \A j \in Assignments(log, path) : j <= k].value

\* the leaf is resolved and held by the built task
Holds(log, leaf) ==
    /\ Assignments(log, leaf.path) # {}
    /\ Prop(log, leaf.path) = parse_value(leaf.key, leaf.value).v

\* the items of a layer's Triggers or Actions list
Items(layer, coll) == IF HasKey(layer, coll) THEN GetKey(layer, coll).items ELSE <<>>

\* the type codes of the elements created in a collection, in creation order
IsCreate(coll, o) == o.op = "Create" /\ o.path = <<coll>>

CreatedTypes(log, coll) ==
    LET made == SelectSeq(log, LAMBDA o : IsCreate(coll, o))
    IN  [k \in DOMAIN made |-> made[k].value]

\* the elements created in the collection are those of items, in order, each
\* holding the attributes of its item
ElementsAre(log, coll, items) ==
    /\ CreatedTypes(log, coll) =
          [k \in DOMAIN items |-> TypeCode(coll, GetKey(items[k].entries, "Type"))]
    /\ \A k \in DOMAIN items :
          \A leaf \in Leaves(filter_keys(items[k].entries, {"Type"}),
                             <<coll, ElementName[k]>>) : Holds(log, leaf)

\* every scalar key of the user holds the user's value, and every scalar default
\* key the user does not supply holds the default
ScalarLayering ==
    /\ \A leaf \in Leaves(UserLayer, <<>>) : Holds(result.log, leaf)
    /\ \A leaf \in Leaves(test.defaults, <<>>) :
          (\A u \in Leaves(UserLayer, <<>>) : u.path # leaf.path)
              => Holds(result.log, leaf)

\* C8 as claimed: in the built task every key the user supplies holds the
\* user's value, overriding the default, and every default key the user does not
\* supply keeps its default: the same for the keys Triggers and Actions.
C8_Original ==
    BuildReturned =>
        /\ ScalarLayering
        /\ \A coll \in Collections :
              ElementsAre(result.log, coll,
                          IF HasKey(UserLayer, coll) THEN Items(UserLayer, coll)
                          ELSE Items(test.defaults, coll))

\* C8 (amended): build applies the defaults in full and then the user's
\* configuration: every scalar key the user supplies at any nesting level holds
\* the user's resolved value, every scalar default key the user does not supply
\* keeps its default, and a Triggers or Actions collection holds the elements
\* of the default layer followed by the user's (the user's list is appended,
\* it does not replace the default's).
C8_Layering ==
    BuildReturned =>
        /\ ScalarLayering
        /\ \A coll \in Collections :
              ElementsAre(result.log, coll,
                          Items(test.defaults, coll) \o Items(UserLayer, coll))
        /\ (/\ test.defaults = TASK_DEFAULTS
            /\ HasKey(UserLayer, "Settings")
            /\ HasKey(GetKey(UserLayer, "Settings").entries, "ExecutionTimeLimit"))
              => Prop(result.log, <<"Settings", "ExecutionTimeLimit">>) = PyStr("PT1H")

\* a task built over the default layer that has a trigger, from a configuration
\* that overrides ExecutionTimeLimit and gives a trigger of its own
C8_Witness ==
    /\ BuildReturned
    /\ test.defaults = DefaultsWithCollections
    /\ Prop(result.log, <<"Settings", "ExecutionTimeLimit">>) = PyStr("PT1H")
    /\ Prop(result.log, <<"Settings", "Priority">>) = PyInt(Bits(7))
    /\ Len(CreatedTypes(result.log, "Triggers")) = 2

\* the orderings of a list
Perms(li) ==
    {[k \in DOMAIN li |-> li[f[k]]] :
        f \in {g \in [DOMAIN li -> DOMAIN li] : \A a, b \in DOMAIN li : a # b => g[a] # g[b]}}

\* C9: for every list of flag names of a bit-flag attribute, the resolved mask
\* is the bitwise OR of the listed flags' values, every permutation of the list
\* resolves to the same mask, and repeating an element does not change it:
\* [Monday, Friday] gives 0x22 in either order and [Monday, Monday] gives 0x2.
C9_FlagsOrderIndependent ==
    (FlagListResolved
        /\ \A k \in DOMAIN test.value.items :
              /\ test.value.items[k].t = "str"
              /\ test.value.items[k].s \in DOMAIN BITFLAG_MAPPINGS[test.key])
        => LET mapping == BITFLAG_MAPPINGS[test.key]
               li == test.value.items
               monday == PyStr("Monday")
               friday == PyStr("Friday")
           IN  /\ result.err = "none"
               /\ result.v = PyInt(UNION {mapping[li[k].s] : k \in DOMAIN li})
               /\ \A q \in Perms(li) : parse_value(test.key, PyList(q)) = Ok(result.v)
               /\ \A k \in DOMAIN li :
                     parse_value(test.key, PyList(Append(li, li[k]))) = Ok(result.v)
               /\ li \in {<<monday, friday>>, <<friday, monday>>}
                     => Val(result.v.b) = 34
               /\ li = <<monday, monday>> => Val(result.v.b) = 2

\* DaysOfWeek [Friday, Monday] has been resolved to 0x22
C9_Witness ==
    /\ FlagListResolved
    /\ test.key = "DaysOfWeek"
    /\ test.value.items = <<PyStr("Friday"), PyStr("Monday")>>
    /\ Val(result.v.b) = 34

\* an enum attribute given as a str that is no member of its table
BadEnum(key, value) ==
    key \in DOMAIN MAPPINGS /\ value.t = "str" /\ value.s \notin DOMAIN MAPPINGS[key]

\* a configuration cut just before its first attribute that is a bad enum:
\* [found, entries], the attributes that come before it in projection order
RECURSIVE CutEntries(_)
RECURSIVE CutItems(_)
CutItems(items) ==
    IF items = <<>> THEN [found |-> FALSE, items |-> <<>>]
    ELSE LET head == CutEntries(Head(items).entries)
             rest == CutItems(Tail(items))
         IN  IF head.found
             THEN [found |-> TRUE, items |-> <<PyDict(head.entries)>>]
             ELSE [found |-> rest.found, items |-> <<Head(items)>> \o rest.items]

CutEntries(entries) ==
    IF entries = <<>> THEN [found |-> FALSE, entries |-> <<>>]
    ELSE LET key == Head(entries)[1]
             value == Head(entries)[2]
             inner == CutEntries(value.entries)
             items == CutItems(value.items)
             rest == CutEntries(Tail(entries))
         IN  IF value.t = "dict" /\ inner.found
             THEN [found |-> TRUE, entries |-> <<<<key, PyDict(inner.entries)>>>>]
             ELSE IF value.t = "list" /\ key \in Collections /\ items.found
             THEN [found |-> TRUE, entries |-> <<<<key, PyList(items.items)>>>>]
             ELSE IF value.t \notin {"dict", "list"} /\ BadEnum(key, value)
             THEN [found |-> TRUE, entries |-> <<>>]
             ELSE [found |-> rest.found, entries |-> <<Head(entries)>> \o rest.entries]

\* C10: an enum attribute (LogonType, RunLevel) given as a str resolves to the
\* code of that name in the attribute's table (LogonType "S4U" gives 2); a str
\* that is no member of the table raises the resolution error, it is not passed
\* through; and a build stops at that attribute: it returns no Task, and the
\* native object has received the attributes before it and none after it.
C10_EnumResolution ==
    /\ (test.fn = "parse_value" /\ result.done /\ test.key \in DOMAIN MAPPINGS
            /\ test.value.t = "str")
          => /\ test.value.s \in DOMAIN MAPPINGS[test.key]
                  => /\ result.err = "none"
                     /\ result.v = PyInt(Bits(MAPPINGS[test.key][test.value.s]))
             /\ test.value.s \notin DOMAIN MAPPINGS[test.key]
                  => result.err = "KeyError" /\ result.v = PyNone
             /\ (test.key = "LogonType" /\ test.value.s = "S4U")
                  => Val(result.v.b) = 2
    /\ (test.fn = "build" /\ result.done /\ HasKey(test.attrs, "Path")
            /\ CutEntries(UserLayer).found)
          => /\ result.err = "KeyError"
             /\ result.path = <<>>
             /\ result.log =
                   set_task_attributes(
                       set_task_attributes(NewTask, <<>>, test.defaults),
                       <<>>, CutEntries(UserLayer).entries).log
             /\ set_task_attributes(
                    set_task_attributes(NewTask, <<>>, test.defaults),
                    <<>>, CutEntries(UserLayer).entries).err = "none"

\* a build that stopped at LogonType "BOGUS": UserId, before it, was assigned
\* and RunLevel, after it, still holds the default HIGHEST
C10_Witness ==
    /\ test.fn = "build" /\ result.done
    /\ result.err = "KeyError"
    /\ test.defaults = TASK_DEFAULTS
    /\ HasKey(test.attrs, "Path")
    /\ Prop(result.log, <<"Principal", "UserId">>) = PyStr("bob")
    /\ Prop(result.log, <<"Principal", "RunLevel">>) = PyInt(Bits(1))


\* C11: build given a configuration without a Path key fails (KeyError) before
\* any native call: no native task object is allocated, nothing is projected
\* and nothing is registered.
C11_BuildNeedsPath ==
    (test.fn = "build" /\ result.done /\ ~HasKey(test.attrs, "Path"))
        => /\ result.err = "KeyError"
           /\ result.log = <<>>
           /\ result.path = <<>>
           /\ calls = <<>>
           /\ live = live0

\* build was given a configuration that has Settings and a trigger but no Path
C11_Witness ==
    /\ test.fn = "build" /\ result.done
    /\ ~HasKey(test.attrs, "Path")
    /\ HasKey(test.attrs, "Settings")
    /\ HasKey(test.attrs, "Triggers")
    /\ result.err = "KeyError"

\* the turn of the create/update loop a position of the log belongs to: a turn
\* that runs to its end issues getTask, CreateFolder, GetFolder and
\* RegisterTaskDefinition
TurnOf(n) == (n + 3) \div 4

\* a task was registered at path when turn k of the loop began
LiveAtTurn(k) == tasks[k] \in live0 \/ \E j \in 1..(k - 1) : tasks[j] = tasks[k]

\* C12: in sync's create/update pass, for each desired task in list order, sync
\* issues exactly one existence probe at the task's path and then exactly one
\* registration of that task, flagged UPDATE when the probe found a task at that
\* path at that moment and CREATE otherwise; a path listed twice that did not
\* exist before is registered with CREATE and then with UPDATE.
C12_ProbeThenRegister ==
    op = "sync" =>
        LET probes == CallsOf("GetTask")
            regs == CallsOf("RegisterTaskDefinition")
        IN  /\ \A n \in probes :
                  /\ n % 4 = 1
                  /\ TurnOf(n) <= Len(tasks)
                  /\ calls[n].path = tasks[TurnOf(n)]
                  /\ calls[n].res = "none" => LiveAtTurn(TurnOf(n))
                  /\ calls[n].res = "ERROR_FILE_NOT_FOUND" => ~LiveAtTurn(TurnOf(n))
            /\ \A n \in regs :
                  /\ n % 4 = 0
                  /\ calls[n - 3].op = "GetTask"
                  /\ calls[n].path = tasks[TurnOf(n)]
                  /\ calls[n].flags = IF calls[n - 3].res = "none"
                                      THEN TASK_CREATION_FLAGS["UPDATE"]
                                      ELSE TASK_CREATION_FLAGS["CREATE"]
            /\ \A k \in DOMAIN tasks :
                  k < i => /\ (4 * k - 3) \in probes
                           /\ (4 * k) \in regs
                           /\ calls[4 * k].res = "none"
            /\ \A j, k \in DOMAIN tasks :
                  (j < k /\ k < i /\ tasks[j] = tasks[k] /\ tasks[j] \notin live0
                     /\ \A h \in 1..(j - 1) : tasks[h] # tasks[j])
                      => /\ calls[4 * j].flags = TASK_CREATION_FLAGS["CREATE"]
                         /\ calls[4 * k].flags = TASK_CREATION_FLAGS["UPDATE"]
            /\ pc \in {"delete", "returned"}
                  => /\ Cardinality(probes) = Len(tasks)
                     /\ Cardinality(regs) = Len(tasks)

\* sync returned after registering twice a path that did not exist: the first
\* registration carried CREATE and the second UPDATE
C12_Witness ==
    /\ op = "sync" /\ pc = "returned" /\ outcome = "ok"
    /\ Len(tasks) = 2 /\ tasks[1] = tasks[2] /\ tasks[1] \notin live0
    /\ calls[4].flags = TASK_CREATION_FLAGS["CREATE"]
    /\ calls[8].flags = TASK_CREATION_FLAGS["UPDATE"]

\* the paths of the tasks sync asked the service to delete
DeletedPaths == {calls[n].path : n \in CallsOf("DeleteTask")}

\* the listing sync obtains after the create/update pass, no other actor
\* intervening: the tasks registered directly in the folder before the call
\* and those the pass registered
ListedAfterPass == {p \in live0 \cup Range(tasks) : Parent(p) = Parent(tasks[1])}

\* C13: every delete sync issues targets a path that was listed directly in the
\* common folder after the create/update pass and is not a desired path; sync
\* never deletes a desired task nor a task outside that folder, and it issues
\* one delete for each path in (listed minus desired).
C13_DeletesOnlyStale ==
    (op = "sync" /\ tasks # <<>>) =>
        /\ \A n \in CallsOf("DeleteTask") :
              /\ calls[n].path \in ListedAfterPass
              /\ calls[n].path \notin Range(tasks)
              /\ Parent(calls[n].path) = Parent(tasks[1])
        /\ \A m, n \in CallsOf("DeleteTask") : calls[m].path = calls[n].path => m = n
        /\ {p \in live0 : Parent(p) # Parent(tasks[1])} \subseteq live
        /\ pc = "delete" => /\ pending \cup DeletedPaths = ListedAfterPass \ Range(tasks)
                            /\ pending \cap DeletedPaths = {}
        /\ pc \in {"delete", "returned"} => Range(tasks) \subseteq live
        /\ pc = "returned" => DeletedPaths = ListedAfterPass \ Range(tasks)

\* sync returned after deleting the two undesired tasks of the folder, while a
\* task of a subfolder and a task of another folder stayed registered
C13_Witness ==
    /\ op = "sync" /\ pc = "returned" /\ outcome = "ok"
    /\ Cardinality(DeletedPaths) = 2
    /\ \E p \in live : Parent(Parent(p)) = Parent(tasks[1])
    /\ \E p \in live : Parent(p) # Parent(tasks[1]) /\ Parent(Parent(p)) # Parent(tasks[1])

\* C14: task_exists never propagates an error: a native not-found error during
\* the probe yields false and a successful getTask yields true; the probe issues
\* the one getTask call and does not change the service state.
C14_ProbeNeverRaises ==
    op = "task_exists" =>
        /\ pc = "returned"
        /\ outcome \in {"True", "False"}
        /\ Len(calls) = 1
        /\ calls[1].op = "GetTask" /\ calls[1].path = tasks[1]
        /\ calls[1].res = "ERROR_FILE_NOT_FOUND" => outcome = "False"
        /\ calls[1].res = "none" => outcome = "True"
        /\ outcome = "True" => tasks[1] \in live0
        /\ live = live0
        /\ folders = folders0

\* the probe of a path where no task is registered answered false, and the
\* service still holds its tasks
C14_Witness ==
    /\ op = "task_exists" /\ pc = "returned" /\ outcome = "False"
    /\ calls[1].res = "ERROR_FILE_NOT_FOUND"
    /\ tasks[1] \notin live
    /\ live # {}

\* the items projected onto a collection: the default layer's, then the user's
ProjectedItems(coll) == Items(test.defaults, coll) \o Items(UserLayer, coll)

\* the number of elements created in the collection before position n of the log
CreatedBefore(log, coll, n) ==
    Cardinality({k \in 1..(n - 1) : IsCreate(coll, log[k])})

\* C15: projecting a Triggers or Actions list creates one collection element per
\* list entry, in list order, with the type code of the entry's Type in the
\* trigger-type or action-type table ("DAILY" gives 2, a Type that is not a key
\* of the table is used as a raw code), and projects all keys of the entry
\* except Type onto the newly created element and onto no other element.
C15_CollectionProjection ==
    BuildReturned =>
        \A coll \in Collections :
            LET items == ProjectedItems(coll)
                log == result.log
                made == CreatedTypes(log, coll)
                table == IF coll = "Triggers" THEN TRIGGER_TYPES ELSE ACTION_TYPES
            IN  /\ Len(made) = Len(items)
                /\ \A k \in DOMAIN items :
                      LET typ == GetKey(items[k].entries, "Type")
                      IN  /\ (typ.t = "str" /\ typ.s \in DOMAIN table)
                                => made[k] = PyInt(Bits(table[typ.s]))
                          /\ (typ.t # "str" \/ typ.s \notin DOMAIN table) => made[k] = typ
                          /\ (coll = "Triggers" /\ typ = PyStr("DAILY"))
                                => Val(made[k].b) = 2
                          /\ \A leaf \in Leaves(filter_keys(items[k].entries, {"Type"}),
                                                <<coll, ElementName[k]>>) :
                                Holds(log, leaf)
                /\ \A n \in DOMAIN log :
                      (log[n].op = "setattr" /\ Head(log[n].path) = coll) =>
                          LET k == CreatedBefore(log, coll, n)
                          IN  /\ k \in DOMAIN items
                              /\ log[n].path[2] = ElementName[k]
                              /\ log[n].path[3] # "Type"
                              /\ \E leaf \in Leaves(filter_keys(items[k].entries, {"Type"}),
                                                    <<coll, ElementName[k]>>) :
                                    /\ leaf.path = log[n].path
                                    /\ log[n].value = parse_value(leaf.key, leaf.value).v

\* a task built from a list of two triggers over a default layer that has one:
\* the third element was created with the raw code 9 and holds an attribute
C15_Witness ==
    /\ BuildReturned
    /\ Len(Items(test.defaults, "Triggers")) = 1
    /\ Len(Items(UserLayer, "Triggers")) = 2
    /\ CreatedTypes(result.log, "Triggers")[3] = PyInt(Bits(9))
    /\ \E n \in DOMAIN result.log :
          /\ result.log[n].op = "setattr"
          /\ Len(result.log[n].path) = 3
          /\ result.log[n].path[2] = ElementName[3]

\* register was called on its own and reached RegisterTaskDefinition with the
\* default creation flag
RegisteredByDefault ==
    /\ op = "register"
    /\ calls # <<>>
    /\ calls[Len(calls)].op = "RegisterTaskDefinition"
    /\ calls[Len(calls)].flags = TASK_CREATION_FLAGS["CREATE_OR_UPDATE"]

\* C16: register(task) with the default creation flag CREATE_OR_UPDATE first
\* ensures the task's parent folder exists (creating it when missing, tolerating
\* that it exists) and then issues exactly one RegisterTaskDefinition on that
\* folder with the task's leaf name, the flag mask 0x6 and the logon type
\* resolved through the logon-type table; after a successful call the parent
\* folder exists and a task is live at the path, whether or not one was before.
C16_RegisterDefault ==
    RegisteredByDefault =>
        LET path == tasks[1] IN
        /\ Len(calls) = 3
        /\ calls[1].op = "CreateFolder" /\ calls[1].path = Parent(path)
        /\ Parent(path) \notin folders0 => calls[1].res = "none"
        /\ Parent(path) \in folders0 => calls[1].res # "none"
        /\ calls[2].op = "GetFolder" /\ calls[2].path = Parent(path)
        /\ calls[2].res = "none"
        /\ calls[3].path = Append(Parent(path), Name(path))
        /\ Val(calls[3].flags) = 6
        /\ (logonType.t = "str" /\ logonType.s \in DOMAIN LOGON_TYPES)
              => calls[3].logon = PyInt(Bits(LOGON_TYPES[logonType.s]))
        /\ logonType.t # "str" => calls[3].logon = logonType
        /\ pc \in {"returned", "raised"}
        /\ pc = "returned" <=> calls[3].res = "none"
        /\ pc = "returned" => /\ Parent(path) \in folders
                              /\ live = live0 \cup {path}
        /\ pc = "raised" => calls[3].res = "E_FAIL" /\ live = live0

\* register returned after creating the missing folder and registering, with
\* the logon type named S4U, a task that did not exist
C16_Witness ==
    /\ RegisteredByDefault /\ pc = "returned"
    /\ tasks[1] \notin live0
    /\ Parent(tasks[1]) \notin folders0
    /\ logonType = PyStr("S4U")
    /\ Val(calls[3].logon.b) = LOGON_TYPES["S4U"]
    /\ tasks[1] \in live

\* sync raised inside a turn of its create/update loop
RaisedInPass ==
    op = "sync" /\ pc = "raised" /\ calls # <<>> /\ i <= Len(tasks)

\* C18: when a registration fails during sync's create/update pass, sync stops
\* with that error and issues no delete: every task that was live before the
\* call and is not desired is still live, and the tasks registered before the
\* failure stay registered.
C18_FailedRegistrationStops ==
    RaisedInPass =>
        LET last == calls[Len(calls)] IN
        /\ last.op \in {"GetFolder", "RegisterTaskDefinition"}
        /\ last.path \in {tasks[i], Parent(tasks[i])}
        /\ last.res # "none"
        /\ outcome = last.res
        /\ TurnOf(Len(calls)) = i
        /\ CallsOf("DeleteTask") = {}
        /\ \A p \in live0 : p \notin Range(tasks) => p \in live
        /\ \A k \in 1..(i - 1) : tasks[k] \in live
        /\ live = live0 \cup {tasks[k] : k \in 1..(i - 1)}

\* the second registration failed after the first had created its task, in a
\* folder that holds an undesired task
C18_Witness ==
    /\ RaisedInPass /\ i = 2
    /\ calls[Len(calls)].op = "RegisterTaskDefinition"
    /\ tasks[1] \notin live0 /\ tasks[1] \in live
    /\ \E p \in live : Parent(p) = Parent(tasks[1]) /\ p \notin Range(tasks)

\* C19: sync called with an empty list fails before any native call and
\* deletes nothing.
C19_EmptyListFails ==
    (op = "sync" /\ tasks = <<>>) =>
        /\ pc = "raised"
        /\ outcome = "IndexError"
        /\ calls = <<>>
        /\ live = live0
        /\ folders = folders0

\* sync was called with the empty list on a service that holds tasks
C19_Witness ==
    /\ op = "sync" /\ tasks = <<>> /\ pc = "raised"
    /\ Cardinality(live) >= 2

Diverged ==
    /\ op = "sync" /\ pc = "returned" /\ outcome = "ok"
    /\ TasksIn(Parent(tasks[1])) # Range(tasks)

\* C17: with another actor creating or deleting tasks in the target folder
\* between sync's create/update pass and the end of its deletion pass, there are
\* executions where sync deletes a task that was not there when it was called
\* or leaves a task that is not desired, so the folder's set differs from the
\* desired set when sync returns; no such execution exists without a step of
\* the other actor, and even then sync issues no delete for a desired path.
C17_OnlyTheRaceDiverges ==
    (op = "sync" /\ tasks # <<>>) =>
        /\ Diverged => external > 0
        /\ (DeletedPaths \ live0 # {}) => external > 0
        /\ DeletedPaths \cap Range(tasks) = {}
        /\ \A p \in DeletedPaths : Parent(p) = Parent(tasks[1])

\* sync returned after deleting a task the other actor had registered before the
\* listing, and the folder holds an undesired task registered after the listing
C17_Witness ==
    /\ Diverged
    /\ external = 2
    /\ DeletedPaths \ live0 # {}
    /\ TasksIn(Parent(tasks[1])) \ Range(tasks) # {}

====
